---- MODULE Spec2Model ----
(***************************************************************************)
(* Model of the audio-analysis core of schnikouf_player:                   *)
(*   - SampleLoader (src/audio/engine.py): background decode threads that  *)
(*     publish (samples, sample_rate);                                     *)
(*   - compute_fft_frame (src/audio/engine.py): the frame analyser;        *)
(*   - MainWindow._update_fft (src/ui/main_window.py): the periodic tick   *)
(*     that feeds the six visualisation widgets                            *)
(*     (src/ui/visualizations.py).                                         *)
(*                                                                         *)
(* Numbers.  A float is an exact rational <<num, den>> in lowest terms     *)
(* with den > 0.  Python lists are sequences; Python index i is sequence   *)
(* index i + 1.  numpy arrays and the waveforms cut from them are held in  *)
(* closed form (see below), integers over one common denominator.          *)
(***************************************************************************)
EXTENDS Integers, Sequences, FiniteSets, TLC

(***************************************************************************)
(* Program constants                                                       *)
(***************************************************************************)
FFT_BLOCK == 2048
FFT_BINS == 512
\* the range of the settings dialog's bar count and the default bar count
BarsMin == 16
BarsMax == 128
DefaultBars == 64
MAX_HISTORY == 100

(***************************************************************************)
(* Bounds of the model                                                     *)
(***************************************************************************)
\* number of load() calls explored (one decode thread per call)
MaxLoads == 2
\* largest bar count handed to compute_fft_frame
MaxBars == 3
\* number of ticks that produce a frame explored in one behaviour
MaxFrames == 3
\* every bar count from BarsMin up to this one has its bar indices computed
MaxDenseBars == 64
\* largest history cap of the widgets when their methods are called directly
MaxCap == 3
MaxOps == 4
MaxItems == 3


(***************************************************************************)
(* Exact rational arithmetic                                               *)
(***************************************************************************)
Abs(x) == IF x < 0 THEN -x ELSE x
Min(a, b) == IF a < b THEN a ELSE b
Max(a, b) == IF a > b THEN a ELSE b

RECURSIVE Gcd(_, _)
Gcd(a, b) == IF b = 0 THEN a ELSE Gcd(b, a % b)

\* the rational n/d (d # 0) in lowest terms with a positive denominator
Rat(n, d) ==
    LET g == Gcd(Abs(n), Abs(d))
        s == IF d < 0 THEN -1 ELSE 1
    IN  IF n = 0 THEN <<0, 1>> ELSE <<(s * n) \div g, Abs(d) \div g>>

RZero == <<0, 1>>
ROne == <<1, 1>>
RAdd(a, b) == Rat(a[1] * b[2] + b[1] * a[2], a[2] * b[2])
RSub(a, b) == Rat(a[1] * b[2] - b[1] * a[2], a[2] * b[2])
RMul(a, b) == Rat(a[1] * b[1], a[2] * b[2])
RDiv(a, b) == Rat(a[1] * b[2], a[2] * b[1])
RAbs(a) == <<Abs(a[1]), a[2]>>
RLe(a, b) == a[1] * b[2] <= b[1] * a[2]
RLt(a, b) == a[1] * b[2] < b[1] * a[2]
RMin(a, b) == IF RLe(a, b) THEN a ELSE b
\* the largest element of a non-empty finite set of rationals
RMaxSet(S) == CHOOSE m \in S : \A x \in S : RLe(x, m)

\* sum of v[lo..hi], by halving so that the recursion stays shallow
RECURSIVE RSum(_, _, _)
RSum(v, lo, hi) ==
    IF lo > hi THEN RZero
    ELSE IF lo = hi THEN v[lo]
    ELSE LET mid == (lo + hi) \div 2
         IN  RAdd(RSum(v, lo, mid), RSum(v, mid + 1, hi))

\* int(x) of Python for a rational x: truncation towards zero
Trunc(a) == IF a[1] >= 0 THEN a[1] \div a[2] ELSE -((-a[1]) \div a[2])

(***************************************************************************)
(* Natural numbers of any size, as little-endian sequences of base-4096    *)
(* digits without leading zeros (TLC's integers are 32 bits wide).         *)
(***************************************************************************)
\* a[lo..hi] * s + carry, as the digits it leaves in place and the carry out;
\* by halving, so that the recursion stays shallow
RECURSIVE BigCarry(_, _, _, _, _)
BigCarry(a, s, lo, hi, carry) ==
    IF lo = hi
    THEN LET t == a[lo] * s + carry
         IN  [d |-> <<t % 4096>>, c |-> t \div 4096]
    ELSE LET mid == (lo + hi) \div 2
             low == BigCarry(a, s, lo, mid, carry)
         IN  \* the low half first: its carry goes into the high half
             IF low.c >= 0
             THEN LET high == BigCarry(a, s, mid + 1, hi, low.c)
                  IN  [d |-> low.d \o high.d, c |-> high.c]
             ELSE low

\* a * s for a big a and 0 < s < 2^19 (so that digit * s + carry < 2^31)
BigMulSmall(a, s) ==
    LET r == BigCarry(a, s, 1, Len(a), 0)
    IN  IF r.c = 0 THEN r.d
        ELSE IF r.c < 4096 THEN Append(r.d, r.c)
        ELSE r.d \o <<r.c % 4096, r.c \div 4096>>

\* a * j^m, by halving m
RECURSIVE BigMulPow(_, _, _)
BigMulPow(a, j, m) ==
    IF m = 0 THEN a
    ELSE IF m = 1 THEN BigMulSmall(a, j)
    ELSE LET half == BigMulPow(a, j, m \div 2)
         IN  \* the first half of the factors first
             IF Len(half) > 0 THEN BigMulPow(half, j, m - m \div 2) ELSE half

\* j^m for 1 <= j < 725, as (j^2)^(m \div 2) times j when m is odd
BigPow(j, m) ==
    LET squares == BigMulPow(<<1>>, j * j, m \div 2)
    IN  IF m % 2 = 0 THEN squares ELSE BigMulSmall(squares, j)

\* a < b for big numbers of the same length: they differ, and at the highest
\* digit where they differ a has the smaller one
BigLtSameLen(a, b) ==
    \E i \in 1..Len(a) :
        /\ a[i] < b[i]
        /\ \A h \in (i + 1)..Len(a) : a[h] = b[h]

BigLe(a, b) ==
    IF Len(a) # Len(b) THEN Len(a) < Len(b) ELSE a = b \/ BigLtSameLen(a, b)

\* the largest j in lo..hi with j^m <= target
RECURSIVE RootSearch(_, _, _, _)
RootSearch(lo, hi, m, target) ==
    IF lo = hi THEN lo
    ELSE LET mid == (lo + hi + 1) \div 2
         IN  IF BigLe(BigPow(mid, m), target)
             THEN RootSearch(mid, hi, m, target)
             ELSE RootSearch(lo, mid - 1, m, target)

\* floor(b^(k/m)) for 1 <= b < 725, 0 <= k <= m, m >= 1: the largest j
\* with j^m <= b^k, the fraction k/m taken in lowest terms
FloorPowFrac(b, k, m) ==
    LET g == Gcd(k, m)
    IN  RootSearch(1, b, m \div g, BigPow(b, k \div g))

(***************************************************************************)
(* numpy arrays.  An array is [tag, ndim, n, ch, period, den, tone]: n     *)
(* frames, ch channels (ndim = 1: a flat array of n samples) and the       *)
(* samples in closed form: channel c is the constant tone[c].dc / den with *)
(* a click of height tone[c].amp / den added on every frame i with         *)
(* i % period = 0.  These are the signals whose discrete Fourier transform *)
(* is known exactly (RfftMag).                                             *)
(*                                                                         *)
(* A vector (one channel of a window) is [n, den, dc, amp, period, phase]: *)
(* n elements, element i (from 0) being (dc + amp) / den when              *)
(* (i + phase) % period = 0 and dc / den otherwise.                        *)
(***************************************************************************)
None == [tag |-> "None"]
Raise == [tag |-> "raise"]

Tone(dc, amp) == [dc |-> dc, amp |-> amp]
Array(ndim, n, ch, period, den, tone) ==
    [tag |-> "ndarray", ndim |-> ndim, n |-> n, ch |-> ch,
     period |-> period, den |-> den, tone |-> tone]

\* den * vec[i], i counted from 0
Elem(vec, i) ==
    IF (i + vec.phase) % vec.period = 0 THEN vec.dc + vec.amp ELSE vec.dc

\* vec[i] as a float, i counted from 1
At(vec, i) == Rat(Elem(vec, i - 1), vec.den)

\* vec.tolist()
List(vec) == [i \in 1..vec.n |-> At(vec, i)]

\* how many elements of vec carry a click
Clicks(vec) ==
    LET first == (vec.period - vec.phase) % vec.period
    IN  IF first >= vec.n THEN 0 ELSE (vec.n - 1 - first) \div vec.period + 1

\* a slice that stops one row early: samples[lo : hi - 1]
SliceShort(a, lo, hi) ==
    LET stop == IF hi - 1 < a.n THEN hi - 1 ELSE a.n
    IN  [ndim |-> a.ndim, shape0 |-> IF stop > lo THEN stop - lo ELSE 0,
         shape1 |-> a.ch, den |-> a.den, period |-> a.period,
         phase |-> lo % a.period, tone |-> a.tone]

\* samples[lo : hi] of Python for 0 <= lo: rows lo .. min(hi, n) - 1
Slice(a, lo, hi) ==
    LET stop == IF hi < a.n THEN hi ELSE a.n
    IN  [ndim |-> a.ndim, shape0 |-> IF stop > lo THEN stop - lo ELSE 0,
         shape1 |-> a.ch, den |-> a.den, period |-> a.period,
         phase |-> lo % a.period, tone |-> a.tone]

\* block[:, c] (the block itself when it is flat)
Column(block, c) ==
    [n |-> block.shape0, den |-> block.den,
     dc |-> block.tone[c + 1].dc, amp |-> block.tone[c + 1].amp,
     period |-> block.period, phase |-> block.phase]

\* the largest element of a non-empty finite set of integers
MaxSet(S) == CHOOSE m \in S : \A x \in S : x <= m

\* den * np.abs(arr).max() for a non-empty arr: the larger of the values it holds
PeakNum(arr) ==
    MaxSet((IF Clicks(arr) > 0 THEN {Abs(arr.dc + arr.amp)} ELSE {})
           \cup (IF Clicks(arr) < arr.n THEN {Abs(arr.dc)} ELSE {}))

\* den * np.abs(arr).sum()
AbsSumNum(arr) ==
    Clicks(arr) * Abs(arr.dc + arr.amp) + (arr.n - Clicks(arr)) * Abs(arr.dc)

(***************************************************************************)
(* compute_fft_frame                                                       *)
(***************************************************************************)
\* a window start that is not clamped to the last full window
WindowStartUnclamped(n, position) ==
    Max(0, Trunc(RMul(position, <<n, 1>>)))

\* a window start that wraps around at the last full window
WindowStartWrapped(n, position) ==
    Trunc(RMul(position, <<n, 1>>)) % (n - FFT_BLOCK + 1)

\* lines 183-185: the start index of the analysis window
WindowStart(n, position) ==
    Max(0, Min(Trunc(RMul(position, <<n, 1>>)), n - FFT_BLOCK))

\* the period of x divides its length, so that x is whole periods
DftKnown(x) == x.n > 0 /\ x.n % x.period = 0

\* |np.fft.rfft(x)|, bins 0 .. x.n/2, for x with DftKnown(x): a train of
\* clicks of height h every P samples over a constant has its energy in the
\* bins that are multiples of x.n/P, (x.n/P) * |h| in each; bin 0 holds the
\* absolute sum of the samples.  Such a spectrum is held in closed form as a
\* comb [n, step, dc, ac]: n bins, bin 0 holding dc, every other bin k with
\* k % step = 0 holding ac, and the rest 0.
RfftMag(x) ==
    LET reps == x.n \div x.period
    IN  [n |-> x.n \div 2 + 1, step |-> reps,
         dc |-> Rat(Abs(x.n * x.dc + reps * x.amp), x.den),
         ac |-> Rat(reps * Abs(x.amp), x.den)]

\* fft[k], k counted from 0
Bin(fft, k) ==
    IF k = 0 THEN fft.dc ELSE IF k % fft.step = 0 THEN fft.ac ELSE RZero

\* fft[:m]
FirstBins(fft, m) == [fft EXCEPT !.n = Min(fft.n, m)]

\* the values a non-empty comb holds
BinValues(fft) ==
    {fft.dc} \cup (IF fft.step < fft.n THEN {fft.ac} ELSE {})
             \cup (IF fft.n > 1 /\ fft.step > 1 THEN {RZero} ELSE {})

\* floor(log2(num / den)) for num >= den > 0
RECURSIVE Log2Floor(_, _)
Log2Floor(num, den) ==
    IF num < 2 * den THEN 0 ELSE 1 + Log2Floor(num, 2 * den)

RECURSIVE Pow2(_)
Pow2(k) == IF k = 0 THEN 1 ELSE 2 * Pow2(k - 1)

\* np.log1p(x) for x >= 0, in thousandths: ln 2 times the base-2 logarithm of
\* 1 + x, the latter taken piecewise linear between powers of two.  Strictly
\* increasing on the magnitudes RfftMag produces, and 0 at 0, as log1p is.
Log1p(x) ==
    IF x[1] = 0 THEN RZero
    ELSE LET num == x[1] + x[2]
             k == Log2Floor(num, x[2])
             base == x[2] * Pow2(k)
             milli == 1000 * k + ((num - base) * 1000) \div base
         IN  Rat((milli * 693) \div 1000, 1000)

\* a norm that divides by the largest value instead of the largest magnitude
norm_signed(arr) ==
    LET mx == MaxSet((IF Clicks(arr) > 0 THEN {arr.dc + arr.amp} ELSE {})
                     \cup (IF Clicks(arr) < arr.n THEN {arr.dc} ELSE {}))
    IN  IF mx > 0 THEN [arr EXCEPT !.den = mx] ELSE arr

\* lines 212-214: norm(arr); arr / mx is the same integers over the peak
norm(arr) ==
    LET mx == PeakNum(arr)
    IN  IF mx > 0 THEN [arr EXCEPT !.den = mx] ELSE arr

\* lines 201-202: the log-compressed magnitudes of the first FFT_BINS bins
\* (log1p of 0 is 0, so the comb keeps its shape)
RawSpectrum(mono) ==
    LET mag == FirstBins(RfftMag(mono), FFT_BINS)
    IN  [mag EXCEPT !.dc = Log1p(mag.dc), !.ac = Log1p(mag.ac)]

\* lines 203-205: fft /= mx when mx > 0
Normalize(fft) ==
    LET mx == RMaxSet(BinValues(fft))
    IN  IF RLt(RZero, mx)
        THEN [fft EXCEPT !.dc = RDiv(fft.dc, mx), !.ac = RDiv(fft.ac, mx)]
        ELSE fft

\* a logspace that leaves out its end point and so returns num - 1 points
LogspaceOpen(top, num) ==
    [k \in 1..(num - 1) |-> FloorPowFrac(top, k - 1, num)]

\* a logspace whose first point is 0 instead of 10^0
LogspaceFromZero(top, num) ==
    [k \in 1..num |-> IF k = 1 THEN 0 ELSE FloorPowFrac(top, k - 1, num - 1)]

\* np.logspace(0, np.log10(top), num, dtype=int) for num >= 0: the num powers
\* top^(k/(num-1)), k = 0 .. num-1, truncated to integers
Logspace(top, num) ==
    IF num = 1 THEN <<1>>
    ELSE [k \in 1..num |-> FloorPowFrac(top, k - 1, num - 1)]

\* bar indices that wrap around at the last bin instead of being clipped
BarIndicesWrapped(nbins, bar_count) ==
    LET indices == Logspace(nbins - 1, bar_count)
    IN  [k \in DOMAIN indices |-> indices[k] % (nbins - 1)]

\* lines 208-209: the bins the bars sample (counted from 0)
BarIndices(nbins, bar_count) ==
    LET indices == Logspace(nbins - 1, bar_count)
    IN  [k \in DOMAIN indices |-> Max(0, Min(indices[k], nbins - 1))]

\* a mix that adds the channels and leaves out the * 0.5
MonoMixSum(left, right) ==
    [left EXCEPT !.dc = left.dc + right.dc, !.amp = left.amp + right.amp]

\* line 198: (left + right) * 0.5
MonoMix(left, right) ==
    [left EXCEPT !.den = 2 * left.den,
                 !.dc = left.dc + right.dc,
                 !.amp = left.amp + right.amp]

\* lines 183-186: block = samples[idx : idx + FFT_BLOCK]
Block(samples, position) ==
    LET idx == WindowStart(samples.n, position)
    IN  Slice(samples, idx, idx + FFT_BLOCK)

\* lines 192-198 for a block with a channel: the three waveforms cut from it,
\* before any normalisation
Window(samples, position) ==
    LET block == Block(samples, position)
        mono1 == block.ndim < 2 \/ block.shape1 < 2
        left == Column(block, 0)
        right == IF mono1 THEN Column(block, 0) ELSE Column(block, 1)
    IN  [left |-> left, right |-> right, mono |-> MonoMix(left, right)]

\* lines 201-205: the normalised spectrum of the mono mix
Spectrum(mono) == Normalize(RawSpectrum(mono))

\* an analyser that scales left, right and mono by one shared peak, the
\* largest of the three
compute_fft_frame_shared(samples, position, bar_count) ==
    IF samples = None \/ samples.n < FFT_BLOCK THEN None
    ELSE IF ~(RLe(RZero, position) /\ RLe(position, ROne)) THEN None
    ELSE
      LET block == Block(samples, position)
      IN  IF block.shape0 < FFT_BLOCK THEN None
          ELSE IF block.ndim = 2 /\ block.shape1 = 0 THEN Raise
          ELSE
            LET w == Window(samples, position)
                \* left and right over the denominator of mono
                l2 == [w.left EXCEPT !.den = 2 * @, !.dc = 2 * @, !.amp = 2 * @]
                r2 == [w.right EXCEPT !.den = 2 * @, !.dc = 2 * @, !.amp = 2 * @]
                mx == Max(PeakNum(l2), Max(PeakNum(r2), PeakNum(w.mono)))
                shared(arr) == IF mx > 0 THEN [arr EXCEPT !.den = mx] ELSE arr
            IN  IF bar_count < 0 THEN Raise
                ELSE
                  LET fft == Spectrum(w.mono)
                      indices == BarIndices(fft.n, bar_count)
                  IN  [tag |-> "frame",
                       bars |-> [k \in DOMAIN indices |-> Bin(fft, indices[k])],
                       left |-> shared(l2),
                       right |-> shared(r2),
                       mono |-> shared(w.mono)]

compute_fft_frame(samples, position, bar_count) ==
    IF samples = None \/ samples.n < FFT_BLOCK THEN None
    ELSE IF ~(RLe(RZero, position) /\ RLe(position, ROne)) THEN None
    ELSE
      LET block == Block(samples, position)
      IN  IF block.shape0 < FFT_BLOCK THEN None
          ELSE IF block.ndim = 2 /\ block.shape1 = 0 THEN Raise
          ELSE
            LET w == Window(samples, position)
            IN  IF bar_count < 0 THEN Raise
                ELSE
                  LET fft == Spectrum(w.mono)
                      indices == BarIndices(fft.n, bar_count)
                  IN  [tag |-> "frame",
                       bars |-> [k \in DOMAIN indices |-> Bin(fft, indices[k])],
                       left |-> norm(w.left),
                       right |-> norm(w.right),
                       mono |-> norm(w.mono)]

(***************************************************************************)
(* The files of the model and what soundfile.read makes of them            *)
(* (always_2d=True: shape (n, channels), channels >= 1).                   *)
(***************************************************************************)
Paths == {"a.flac", "b.wav", "c.m4a"}

\* sf.read(path, dtype="float32", always_2d=True); libsndfile cannot decode
\* c.m4a and raises
sf_read(path) ==
    IF path = "a.flac"
    THEN [ok |-> TRUE, rate |-> 44100,
          samples |-> Array(2, 4096, 2, 2048, 4, <<Tone(2, 1), Tone(0, 2)>>)]
    ELSE IF path = "b.wav"
    THEN [ok |-> TRUE, rate |-> 48000,
          samples |-> Array(2, 6000, 1, 2048, 2, <<Tone(0, 1)>>)]
    ELSE [ok |-> FALSE]

\* the array object a decode creates: its contents and which decode made it
Object(array, id) ==
    [tag |-> "ndarray", id |-> id, ndim |-> array.ndim, n |-> array.n,
     ch |-> array.ch, period |-> array.period, den |-> array.den,
     tone |-> array.tone]

\* what self._player.get_position() may return: -1 without media, else [0, 1]
PlayerPositions == {<<-1, 1>>, <<1, 2>>}

\* bar_count as ~/.config/quark_audio_player.json may hold it (load_config
\* merges the file over the defaults without validating it)
ConfigBarCounts == {-1, MaxBars}

EmptyList == [n |-> 0, den |-> 1, dc |-> 0, amp |-> 0, period |-> 1, phase |-> 0]
Pending == [tag |-> "pending"]
NoCall == [samples |-> None, position |-> RZero, bar_count |-> 0, ret |-> Pending]

(***************************************************************************)
(* State                                                                   *)
(***************************************************************************)
VARIABLES
    samples,        \* SampleLoader.samples: None or the published array
    sample_rate,    \* SampleLoader.sample_rate
    threads,        \* one record per decode thread started, in start order:
                    \*   pc: the line of _run it is about to execute, or "exit"
                    \*   path, samples, rate: the argument and locals of _run
    fg,             \* the foreground (Qt) thread: idle in the event loop, or
                    \* inside SampleLoader.load about to execute line pc
    timer_fft,      \* MainWindow._timer_fft is running
    stdout,         \* the diagnostics printed so far
    bar_count,      \* MainWindow._config["bar_count"]
    bars,           \* SpectrumWidget._bars
    columns,        \* SpectrogramWidget._columns
    max_cols,       \* SpectrogramWidget._max_cols
    osc,            \* OscilloscopeWidget._samples
    lis_left,       \* LissajousWidget._left
    lis_right,      \* LissajousWidget._right
    flux_history,   \* SpectralFluxWidget._history
    flux_prev,      \* SpectralFluxWidget._prev
    max_points,     \* SpectralFluxWidget._max_points
    vu_left,        \* VUMeterWidget._left
    vu_right,       \* VUMeterWidget._right
    frames,         \* number of ticks that produced a frame (bounds the model)
    call,           \* a direct call of compute_fft_frame: arguments and result
    items,          \* PlaylistWidget: its top-level items, in row order
    path_index,     \* PlaylistWidget._path_index: its keys
    undo_history,   \* PlaylistWidget._history
    ops             \* number of PlaylistWidget calls made (bounds the model)

loaderVars == <<samples, sample_rate, threads>>
viewVars == <<bars, columns, max_cols, osc, lis_left, lis_right,
              flux_history, flux_prev, max_points, vu_left, vu_right>>
playlistVars == <<items, path_index, undo_history, ops>>
vars == <<samples, sample_rate, threads, fg, timer_fft, stdout, bar_count,
          bars, columns, max_cols, osc, lis_left, lis_right, flux_history,
          flux_prev, max_points, vu_left, vu_right, frames,
          items, path_index, undo_history, ops, call>>

Idle == [pc |-> "idle", path |-> ""]

\* PlaylistWidget.__init__, lines 53-57: no items, no paths, no history
PlaylistBuilt ==
    /\ items = <<>>
    /\ path_index = {}
    /\ undo_history = <<>>
    /\ ops = 0

\* the widgets' __init__, with the two history caps as given
ViewsBuilt(cols_cap, points_cap) ==
    /\ bars = <<>>
    /\ columns = <<>>
    /\ max_cols = cols_cap
    /\ osc = EmptyList
    /\ lis_left = EmptyList
    /\ lis_right = EmptyList
    /\ flux_history = <<>>
    /\ flux_prev = None
    /\ max_points = points_cap
    /\ vu_left = RZero
    /\ vu_right = RZero
    /\ frames = 0

\* SampleLoader.__init__ and the views' __init__, with the two history caps
\* as given
PlayerBuilt(cols_cap, points_cap) ==
    /\ samples = None
    /\ sample_rate = 0
    /\ threads = <<>>
    /\ fg = Idle
    /\ timer_fft = FALSE
    /\ stdout = {}
    /\ ViewsBuilt(cols_cap, points_cap)

\* MainWindow.__init__: the loader, the views and the playlist as built (the
\* playlist stays so wherever it plays no part)
Built(cols_cap, points_cap) ==
    /\ PlayerBuilt(cols_cap, points_cap)
    /\ PlaylistBuilt

\* the player while it plays path, before the first tick: all loads but one
\* are behind, each was _play_item(path) and each decode has run to its end,
\* so that the buffer exposed is the one of the last of them
Playing(path, cols_cap, points_cap) ==
    LET r == sf_read(path)
    IN  /\ samples = Object(r.samples, MaxLoads - 1)
        /\ sample_rate = r.rate
        /\ threads = [k \in 1..(MaxLoads - 1) |->
                        [pc |-> "exit", path |-> path,
                         samples |-> Object(r.samples, k), rate |-> r.rate]]
        /\ fg = Idle
        /\ timer_fft = TRUE
        /\ stdout = {}
        /\ ViewsBuilt(cols_cap, points_cap)
        /\ PlaylistBuilt

\* SampleLoader.__init__ and the widgets' __init__: caps 200 and 2000
Constructed == Built(200, 2000)

Init ==
    /\ Constructed
    /\ bar_count \in ConfigBarCounts
    /\ call = NoCall

(***************************************************************************)
(* SampleLoader.load, run by the foreground thread, one line at a time:    *)
(* decode threads run between its lines.                                   *)
(***************************************************************************)
\* a load that starts its decode thread first, at line 142, before any reset
load_142_started(path) ==
    /\ fg.pc = "idle"
    /\ Len(threads) < MaxLoads
    /\ timer_fft' = TRUE
    /\ threads' = Append(threads, [pc |-> "L149", path |-> path,
                                   samples |-> None, rate |-> 0])
    /\ samples' = None
    /\ fg' = [pc |-> "L143", path |-> path]
    /\ UNCHANGED <<sample_rate, stdout, bar_count, viewVars, frames, call>>
    /\ UNCHANGED playlistVars

\* _play_item lines 667-668 and load line 142
load_142(path) ==
    /\ fg.pc = "idle"
    /\ Len(threads) < MaxLoads
    /\ timer_fft' = TRUE
    /\ samples' = None
    /\ fg' = [pc |-> "L143", path |-> path]
    /\ UNCHANGED <<sample_rate, threads, stdout, bar_count, viewVars, frames, call>>
    /\ UNCHANGED playlistVars

load_143 ==
    /\ fg.pc = "L143"
    /\ sample_rate' = 0
    /\ fg' = [fg EXCEPT !.pc = "L144"]
    /\ UNCHANGED <<samples, threads, timer_fft, stdout, bar_count, viewVars,
                   frames, call>>
    /\ UNCHANGED playlistVars

\* lines 144-145: the thread is created and started, and load returns
load_144 ==
    /\ fg.pc = "L144"
    /\ threads' = Append(threads, [pc |-> "L149", path |-> fg.path,
                                   samples |-> None, rate |-> 0])
    /\ fg' = Idle
    /\ UNCHANGED <<samples, sample_rate, timer_fft, stdout, bar_count, viewVars,
                   frames, call>>
    /\ UNCHANGED playlistVars

(***************************************************************************)
(* SampleLoader._run in decode thread k                                    *)
(***************************************************************************)
run_149(k) ==
    /\ threads[k].pc = "L149"
    /\ LET r == sf_read(threads[k].path)
       IN  threads' = [threads EXCEPT ![k] =
               IF r.ok
               THEN [@ EXCEPT !.pc = "L150", !.samples = Object(r.samples, k),
                              !.rate = r.rate]
               ELSE [@ EXCEPT !.pc = "L153"]]
    /\ UNCHANGED <<samples, sample_rate, fg, timer_fft, stdout, bar_count,
                   viewVars, frames, call>>
    /\ UNCHANGED playlistVars

run_150(k) ==
    /\ threads[k].pc = "L150"
    /\ samples' = threads[k].samples
    /\ threads' = [threads EXCEPT ![k].pc = "L151"]
    /\ UNCHANGED <<sample_rate, fg, timer_fft, stdout, bar_count, viewVars,
                   frames, call>>
    /\ UNCHANGED playlistVars

run_151(k) ==
    /\ threads[k].pc = "L151"
    /\ sample_rate' = threads[k].rate
    /\ threads' = [threads EXCEPT ![k].pc = "exit"]
    /\ UNCHANGED <<samples, fg, timer_fft, stdout, bar_count, viewVars, frames,
                   call>>
    /\ UNCHANGED playlistVars

\* an except clause that also publishes an empty buffer
run_153_publish(k) ==
    /\ threads[k].pc = "L153"
    /\ stdout' = stdout \cup {<<"[SampleLoader] Cannot read", threads[k].path>>}
    /\ samples' = Object(Array(2, 0, 2, 1, 1, <<Tone(0, 0), Tone(0, 0)>>), k)
    /\ threads' = [threads EXCEPT ![k].pc = "exit"]
    /\ UNCHANGED <<sample_rate, fg, timer_fft, bar_count, viewVars, frames, call>>
    /\ UNCHANGED playlistVars

\* the except clause: the error is printed and the thread ends
run_153(k) ==
    /\ threads[k].pc = "L153"
    /\ stdout' = stdout \cup {<<"[SampleLoader] Cannot read", threads[k].path>>}
    /\ threads' = [threads EXCEPT ![k].pc = "exit"]
    /\ UNCHANGED <<samples, sample_rate, fg, timer_fft, bar_count, viewVars,
                   frames, call>>
    /\ UNCHANGED playlistVars

(***************************************************************************)
(* The widgets' methods, as the new value of what they assign              *)
(***************************************************************************)
\* an add_column that evicts only once the count exceeds the cap by two
add_column_late(cols, cap, fft) ==
    LET appended == Append(cols, fft)
    IN  IF Len(appended) > cap + 1 THEN Tail(appended) ELSE appended

\* an add_column that evicts the newest column instead of the oldest
add_column_lifo(cols, cap, fft) ==
    LET appended == Append(cols, fft)
    IN  IF Len(appended) > cap THEN SubSeq(appended, 1, Len(appended) - 1)
        ELSE appended

\* SpectrogramWidget.add_column, lines 102-104
add_column(cols, cap, fft) ==
    LET appended == Append(cols, fft)
    IN  IF Len(appended) > cap THEN Tail(appended) ELSE appended

\* xs[start:] of Python
SliceFrom(xs, start) ==
    LET from == IF start < 0 THEN Max(Len(xs) + start, 0) ELSE Min(start, Len(xs))
    IN  SubSeq(xs, from + 1, Len(xs))

\* a set_max_cols that keeps the oldest n columns
set_max_cols_oldest(cols, n) == IF Len(cols) > n THEN SubSeq(cols, 1, n) ELSE cols

\* SpectrogramWidget.set_max_cols, lines 97-98: the new columns
set_max_cols(cols, n) == IF Len(cols) > n THEN SliceFrom(cols, -n) ELSE cols

\* a set_max_points that stores the cap and leaves the history as it is
set_max_points_kept(history, n) == history

\* SpectralFluxWidget.set_max_points, lines 246-247: the new history
set_max_points(history, n) ==
    IF Len(history) > n THEN SliceFrom(history, -n) ELSE history

\* an update_spectrum that appends a 0 when the lengths differ
update_spectrum_resized(history, prev, cap, spectrum) ==
    IF prev # None
    THEN LET value == IF Len(spectrum) = Len(prev)
                      THEN RMin(ROne, RDiv(RSum([i \in 1..Len(spectrum) |->
                               RAbs(RSub(spectrum[i], prev[i]))], 1, Len(spectrum)),
                               <<10, 1>>))
                      ELSE RZero
             appended == Append(history, value)
         IN  IF Len(appended) > cap THEN Tail(appended) ELSE appended
    ELSE history

\* an update_spectrum that appends a 0 when it has nothing to compare with
update_spectrum_eager(history, prev, cap, spectrum) ==
    LET value == IF prev # None /\ Len(spectrum) = Len(prev)
                 THEN RMin(ROne, RDiv(RSum([i \in 1..Len(spectrum) |->
                          RAbs(RSub(spectrum[i], prev[i]))], 1, Len(spectrum)),
                          <<10, 1>>))
                 ELSE RZero
        appended == Append(history, value)
    IN  IF Len(appended) > cap THEN Tail(appended) ELSE appended

\* an update_spectrum that stores flux / 10 without clamping it to 1
update_spectrum_unclamped(history, prev, cap, spectrum) ==
    IF prev # None /\ Len(spectrum) = Len(prev)
    THEN LET diff == [i \in 1..Len(spectrum) |-> RAbs(RSub(spectrum[i], prev[i]))]
             appended == Append(history, RDiv(RSum(diff, 1, Len(diff)), <<10, 1>>))
         IN  IF Len(appended) > cap THEN Tail(appended) ELSE appended
    ELSE history

\* SpectralFluxWidget.update_spectrum, lines 251-255: the new history
update_spectrum(history, prev, cap, spectrum) ==
    IF prev # None /\ Len(spectrum) = Len(prev)
    THEN LET diff == [i \in 1..Len(spectrum) |-> RAbs(RSub(spectrum[i], prev[i]))]
             flux == RSum(diff, 1, Len(diff))
             appended == Append(history, RMin(ROne, RDiv(flux, <<10, 1>>)))
         IN  IF Len(appended) > cap THEN Tail(appended) ELSE appended
    ELSE history

\* a level that follows the peak of the waveform, not its mean
PeakAbs(xs) == Rat(PeakNum(xs), xs.den)

\* float(np.abs(np.array(xs)).mean()), main_window.py lines 787-788
MeanAbs(xs) == Rat(AbsSumNum(xs), xs.n * xs.den)

(***************************************************************************)
(* MainWindow._update_fft: one tick of _timer_fft.  It runs on the         *)
(* foreground thread, so never inside load, and reads the loader once.     *)
(***************************************************************************)
\* a tick that leaves a full spectrogram as it is and updates the other views
show_frame_skipping(buffer, pos, ret) ==
    /\ call' = [samples |-> buffer, position |-> pos, bar_count |-> bar_count,
                ret |-> ret]
    /\ IF ret.tag = "frame"
       THEN /\ frames < MaxFrames
            /\ frames' = frames + 1
            /\ bars' = ret.bars
            /\ columns' = IF Len(columns) >= max_cols THEN columns
                          ELSE add_column(columns, max_cols, ret.bars)
            /\ osc' = ret.mono
            /\ lis_left' = ret.left
            /\ lis_right' = ret.right
            /\ flux_history' = update_spectrum(flux_history, flux_prev,
                                               max_points, ret.bars)
            /\ flux_prev' = ret.bars
            /\ vu_left' = RMin(ROne, MeanAbs(ret.left))
            /\ vu_right' = RMin(ROne, MeanAbs(ret.right))
            /\ UNCHANGED <<max_cols, max_points, stdout>>
       ELSE /\ stdout' = IF ret.tag = "raise"
                         THEN stdout \cup {<<"[FFT]", "">>}
                         ELSE stdout
            /\ UNCHANGED <<viewVars, frames>>

\* the tick from its arguments on: what compute_fft_frame made of them is
\* ret, and the views follow lines 781-789
show_frame(buffer, pos, ret) ==
    /\ call' = [samples |-> buffer, position |-> pos, bar_count |-> bar_count,
                ret |-> ret]
    /\ IF ret.tag = "frame"
       THEN /\ frames < MaxFrames
            /\ frames' = frames + 1
            /\ bars' = ret.bars
            /\ columns' = add_column(columns, max_cols, ret.bars)
            /\ osc' = ret.mono
            /\ lis_left' = ret.left
            /\ lis_right' = ret.right
            /\ flux_history' = update_spectrum(flux_history, flux_prev,
                                               max_points, ret.bars)
            /\ flux_prev' = ret.bars
            /\ vu_left' = RMin(ROne, MeanAbs(ret.left))
            /\ vu_right' = RMin(ROne, MeanAbs(ret.right))
            /\ UNCHANGED <<max_cols, max_points, stdout>>
       ELSE /\ stdout' = IF ret.tag = "raise"
                         THEN stdout \cup {<<"[FFT]", "">>}
                         ELSE stdout
            /\ UNCHANGED <<viewVars, frames>>

\* a tick that lets the meter fall to zero when it has no frame to show
update_fft_decay ==
    /\ fg.pc = "idle"
    /\ timer_fft
    /\ IF samples = None
       THEN /\ call' = [NoCall EXCEPT !.ret = None]
            /\ vu_left' = RZero
            /\ vu_right' = RZero
            /\ UNCHANGED <<bars, columns, max_cols, osc, lis_left, lis_right,
                           flux_history, flux_prev, max_points, frames, stdout>>
       ELSE \E pos \in PlayerPositions :
              show_frame(samples, pos,
                         compute_fft_frame(samples, pos, bar_count))
    /\ UNCHANGED <<loaderVars, fg, timer_fft, bar_count>>
    /\ UNCHANGED playlistVars

\* a tick whose analyser scales the buffer it was given in place
update_fft_inplace ==
    /\ fg.pc = "idle"
    /\ timer_fft
    /\ IF samples = None
       THEN /\ call' = [NoCall EXCEPT !.ret = None]
            /\ UNCHANGED <<samples, viewVars, frames, stdout>>
       ELSE \E pos \in PlayerPositions :
              LET ret == compute_fft_frame(samples, pos, bar_count)
              IN  /\ show_frame(samples, pos, ret)
                  /\ samples' = IF ret.tag = "frame"
                                THEN [samples EXCEPT !.den = 2 * @]
                                ELSE samples
    /\ UNCHANGED <<sample_rate, threads, fg, timer_fft, bar_count>>
    /\ UNCHANGED playlistVars

\* call records the tick: the arguments compute_fft_frame was called with and
\* what became of the call (None too when line 770 returned before it)
update_fft ==
    /\ fg.pc = "idle"
    /\ timer_fft
    /\ IF samples = None
       THEN /\ call' = [NoCall EXCEPT !.ret = None]
            /\ UNCHANGED <<viewVars, frames, stdout>>
       ELSE \E pos \in PlayerPositions :
              show_frame(samples, pos,
                         compute_fft_frame(samples, pos, bar_count))
    /\ UNCHANGED <<loaderVars, fg, timer_fft, bar_count>>
    /\ UNCHANGED playlistVars

Next ==
    \/ \E path \in Paths : load_142(path)
    \/ load_143
    \/ load_144
    \/ \E k \in 1..Len(threads) : run_149(k)
    \/ \E k \in 1..Len(threads) : run_150(k)
    \/ \E k \in 1..Len(threads) : run_151(k)
    \/ \E k \in 1..Len(threads) : run_153(k)
    \/ update_fft

Spec == Init /\ [][Next]_vars

(***************************************************************************)
(* Spec with fair scheduling: a decode thread that can take its next step  *)
(* eventually takes it, and so does the foreground thread inside load.     *)
(***************************************************************************)
SpecFair ==
    /\ Spec
    /\ WF_vars(load_143)
    /\ WF_vars(load_144)
    /\ \A k \in 1..MaxLoads :
          /\ WF_vars(k <= Len(threads) /\ run_149(k))
          /\ WF_vars(k <= Len(threads) /\ run_150(k))
          /\ WF_vars(k <= Len(threads) /\ run_151(k))
          /\ WF_vars(k <= Len(threads) /\ run_153(k))

(***************************************************************************)
(* compute_fft_frame called directly: the arguments are drawn at the       *)
(* start, the one step is the call returning.                              *)
(***************************************************************************)
Stereo(n, period, den, l, r) == Array(2, n, 2, period, den, <<l, r>>)

FftBuffers ==
    { None,
      Stereo(0, 8, 1, Tone(0, 0), Tone(0, 0)),
      Stereo(FFT_BLOCK - 1, 8, 2, Tone(1, 1), Tone(1, -1)),
      Stereo(FFT_BLOCK, 2048, 4, Tone(2, 1), Tone(0, 2)),
      Array(2, FFT_BLOCK + 1, 1, 8, 2, <<Tone(1, -2)>>),
      Stereo(2 * FFT_BLOCK, 8, 1, Tone(0, 0), Tone(0, 0)),
      Array(1, 2 * FFT_BLOCK, 1, 1, 2, <<Tone(1, 0)>>),
      Array(2, 5000, 3, 2048, 4, <<Tone(1, 3), Tone(-1, 0), Tone(4, 4)>>),
      Array(2, FFT_BLOCK, 0, 8, 1, <<>>),
      Stereo(6000, 8, 4, Tone(1, -3), Tone(0, 2)) }

\* positions that are exact as floats, so that position * n is exact too
FftPositions ==
    {<<-1, 8>>, <<0, 1>>, <<3, 8>>, <<1, 2>>, <<7, 8>>, <<1, 1>>, <<9, 8>>}

\* the bar counts of the direct calls: the small ones and a count of 8
FftBarCounts == (0..MaxBars) \cup {8}

FftInit ==
    /\ Constructed
    /\ bar_count = MaxBars
    /\ call \in [samples : FftBuffers, position : FftPositions,
                 bar_count : FftBarCounts, ret : {Pending}]

fft_return ==
    /\ call.ret = Pending
    /\ call' = [call EXCEPT !.ret =
                   compute_fft_frame(call.samples, call.position, call.bar_count)]
    /\ UNCHANGED <<loaderVars, fg, timer_fft, stdout, bar_count, viewVars, frames>>
    /\ UNCHANGED playlistVars

FftNext == fft_return

SpecFft == FftInit /\ [][FftNext]_vars

(***************************************************************************)
(* The bar indices of lines 208-209 for the bar counts the settings dialog *)
(* allows, computed one element of the index array per step.               *)
(***************************************************************************)
BarCounts == (BarsMin..MaxDenseBars) \cup {DefaultBars, BarsMax}

BarsInit ==
    /\ Constructed
    /\ bar_count \in BarCounts
    /\ call = [NoCall EXCEPT !.bar_count = bar_count, !.ret = <<>>]

\* element Len(ret) of indices (counted from 0) is computed and clipped
bar_index ==
    /\ Len(call.ret) < call.bar_count
    /\ call' = [call EXCEPT !.ret =
                   Append(@, BarIndices(FFT_BINS, call.bar_count)[Len(@) + 1])]
    /\ UNCHANGED <<loaderVars, fg, timer_fft, stdout, bar_count, viewVars, frames>>
    /\ UNCHANGED playlistVars

BarsNext == bar_index

SpecBars == BarsInit /\ [][BarsNext]_vars

(***************************************************************************)
(* The methods of SpectrogramWidget and SpectralFluxWidget called directly *)
(* on the foreground thread, in any order.  The widgets start as           *)
(* MainWindow.__init__ leaves them: empty, with the caps of the            *)
(* configuration file applied (_apply_config, lines 401-402).  call        *)
(* holds the last call made.                                               *)
(***************************************************************************)
Caps == 1..MaxCap
Zeros(n) == [i \in 1..n |-> RZero]
Ones(n) == [i \in 1..n |-> ROne]
\* the bar vectors handed to the widgets
WidgetColumns == {<<ROne, RZero>>, <<RZero, ROne>>}
WidgetSpectra == WidgetColumns \cup {Zeros(12), Ones(12)}
Called(op, arg) == [op |-> op, arg |-> arg]

WidgetsInit ==
    /\ \E cols_cap \in Caps, points_cap \in Caps : Built(cols_cap, points_cap)
    /\ bar_count = DefaultBars
    /\ call = Called("none", 0)

add_column_call(fft) ==
    /\ columns' = add_column(columns, max_cols, fft)
    /\ call' = Called("add_column", fft)
    /\ UNCHANGED <<loaderVars, fg, timer_fft, stdout, bar_count, bars, max_cols,
                   osc, lis_left, lis_right, flux_history, flux_prev, max_points,
                   vu_left, vu_right, frames>>
    /\ UNCHANGED playlistVars

set_max_cols_call(n) ==
    /\ max_cols' = n
    /\ columns' = set_max_cols(columns, n)
    /\ call' = Called("set_max_cols", n)
    /\ UNCHANGED <<loaderVars, fg, timer_fft, stdout, bar_count, bars, osc,
                   lis_left, lis_right, flux_history, flux_prev, max_points,
                   vu_left, vu_right, frames>>
    /\ UNCHANGED playlistVars

update_spectrum_call(spectrum) ==
    /\ flux_history' = update_spectrum(flux_history, flux_prev, max_points, spectrum)
    /\ flux_prev' = spectrum
    /\ call' = Called("update_spectrum", spectrum)
    /\ UNCHANGED <<loaderVars, fg, timer_fft, stdout, bar_count, bars, columns,
                   max_cols, osc, lis_left, lis_right, max_points, vu_left,
                   vu_right, frames>>
    /\ UNCHANGED playlistVars

set_max_points_call(n) ==
    /\ max_points' = n
    /\ flux_history' = set_max_points(flux_history, n)
    /\ call' = Called("set_max_points", n)
    /\ UNCHANGED <<loaderVars, fg, timer_fft, stdout, bar_count, bars, columns,
                   max_cols, osc, lis_left, lis_right, flux_prev, vu_left,
                   vu_right, frames>>
    /\ UNCHANGED playlistVars

WidgetsNext ==
    \/ \E fft \in WidgetColumns : add_column_call(fft)
    \/ \E n \in Caps : set_max_cols_call(n)
    \/ \E spectrum \in WidgetSpectra : update_spectrum_call(spectrum)
    \/ \E n \in Caps : set_max_points_call(n)

SpecWidgets == WidgetsInit /\ [][WidgetsNext]_vars

(***************************************************************************)
(* The same widget methods with every cap an int may hold from 0 on: the   *)
(* configuration file is applied unvalidated (load_config), and the        *)
(* methods take any int.                                                   *)
(***************************************************************************)
CapsFromZero == 0..MaxCap

CapsInit ==
    /\ \E cols_cap \in CapsFromZero, points_cap \in CapsFromZero :
          Built(cols_cap, points_cap)
    /\ bar_count = DefaultBars
    /\ call = Called("none", 0)

CapsNext ==
    \/ \E fft \in WidgetColumns : add_column_call(fft)
    \/ \E n \in CapsFromZero : set_max_cols_call(n)
    \/ \E spectrum \in WidgetSpectra : update_spectrum_call(spectrum)
    \/ \E n \in CapsFromZero : set_max_points_call(n)

SpecCaps == CapsInit /\ [][CapsNext]_vars

(***************************************************************************)
(* The player with its settings dialog, from a track on that is playing    *)
(* and decoded: one more load, decodes and ticks as in Spec, and the       *)
(* dialog accepted between two ticks (_open_settings runs on the           *)
(* foreground thread: _on_accept stores the spin boxes' values in the      *)
(* configuration, _apply_config hands the caps to the widgets).  The caps  *)
(* and bar counts are small stand-ins for the dialog's ranges.             *)
(***************************************************************************)
\* (the dialog offers no bar count below BarsMin: the stand-ins start at 2)
SettingsBarCounts == {2, MaxBars}
\* a cap of one entry and one of several, which MaxFrames frames overflow
SettingsCaps == {1, MaxCap - 1}

\* _on_accept lines 258-260 and _apply_config lines 401-402
open_settings(bar_setting, flux_setting, cols_setting) ==
    /\ fg.pc = "idle"
    /\ bar_count' = bar_setting
    /\ max_points' = flux_setting
    /\ flux_history' = set_max_points(flux_history, flux_setting)
    /\ max_cols' = cols_setting
    /\ columns' = set_max_cols(columns, cols_setting)
    /\ UNCHANGED <<loaderVars, fg, timer_fft, stdout, bars, osc, lis_left,
                   lis_right, flux_prev, vu_left, vu_right, frames, call>>
    /\ UNCHANGED playlistVars

\* a track is playing and decoded
TicksInit ==
    /\ \E path \in {"a.flac", "b.wav"},
          cols_cap \in SettingsCaps, points_cap \in SettingsCaps :
          Playing(path, cols_cap, points_cap)
    /\ bar_count \in SettingsBarCounts
    /\ call = NoCall

TicksNext ==
    \/ \E path \in Paths : load_142(path)
    \/ load_143
    \/ load_144
    \/ \E k \in 1..Len(threads) : run_149(k)
    \/ \E k \in 1..Len(threads) : run_150(k)
    \/ \E k \in 1..Len(threads) : run_151(k)
    \/ \E k \in 1..Len(threads) : run_153(k)
    \/ update_fft
    \/ \E b \in SettingsBarCounts, p \in SettingsCaps, c \in SettingsCaps :
          open_settings(b, p, c)

SpecTicks == TicksInit /\ [][TicksNext]_vars

(***************************************************************************)
(* The same with the caps left as they are: the dialog is accepted with    *)
(* another bar count only.  The player starts with the largest bar count   *)
(* and the dialog sets a smaller one, so that the bar count has been       *)
(* constant exactly while it is the largest.                               *)
(***************************************************************************)
SmallerBarCounts == {2}

FramesInit ==
    /\ \E path \in {"a.flac", "b.wav"},
          cols_cap \in SettingsCaps, points_cap \in SettingsCaps :
          Playing(path, cols_cap, points_cap)
    /\ bar_count = MaxBars
    /\ call = NoCall

FramesNext ==
    \/ \E path \in Paths : load_142(path)
    \/ load_143
    \/ load_144
    \/ \E k \in 1..Len(threads) : run_149(k)
    \/ \E k \in 1..Len(threads) : run_150(k)
    \/ \E k \in 1..Len(threads) : run_151(k)
    \/ \E k \in 1..Len(threads) : run_153(k)
    \/ update_fft
    \/ \E b \in SmallerBarCounts : open_settings(b, max_points, max_cols)

SpecFrames == FramesInit /\ [][FramesNext]_vars

(***************************************************************************)
(* PlaylistWidget (src/ui/playlist.py).  An item is its path and its       *)
(* texts, the five column texts taken together as title; rows are counted  *)
(* from 0 as Qt counts them.  Sorting is left aside: an item added is the  *)
(* last row and an item inserted at a row is at that row.  Each method is  *)
(* the record of what it leaves: items, index, history and its result.     *)
(***************************************************************************)
PlaylistPaths == {"a.flac", "b.wav"}
Titles == {"one", "two"}
Tracks == [path : PlaylistPaths, title : Titles]
\* os.path.exists(path)
FileExists(path) == path \in Paths

\* takeTopLevelItem(row)
take(its, row) ==
    [i \in 1..(Len(its) - 1) |-> IF i <= row THEN its[i] ELSE its[i + 1]]

\* insertTopLevelItem(row, item): Qt inserts nothing at a row out of range
insert(its, row, item) ==
    IF row < 0 \/ row > Len(its) THEN its
    ELSE [i \in 1..(Len(its) + 1) |->
             IF i <= row THEN its[i]
             ELSE IF i = row + 1 THEN item
             ELSE its[i - 1]]

\* a cap that keeps the oldest MAX_HISTORY entries
cap_history_oldest(history) ==
    IF Len(history) > MAX_HISTORY THEN SubSeq(history, 1, MAX_HISTORY)
    ELSE history

\* remove_selected, lines 97-98
cap_history(history) ==
    IF Len(history) > MAX_HISTORY THEN SliceFrom(history, -MAX_HISTORY)
    ELSE history

\* add_track, lines 65-73
add_track(its, index, history, track) ==
    IF track.path \in index
    THEN [items |-> its, index |-> index, history |-> history, ret |-> None]
    ELSE [items |-> Append(its, track), index |-> index \cup {track.path},
          history |-> history, ret |-> track]

\* the loop of remove_selected, lines 81-94, from the item number done + 1 of
\* the selection on; order holds the selected items, in the order
\* selectedItems() gives them, each as the row it had when the call began
RECURSIVE remove_items(_, _, _)
remove_items(st, order, done) ==
    IF done = Len(order) THEN st
    ELSE LET was == order[done + 1]
             row == was - Cardinality({j \in 1..done : order[j] < was})
             item == st.items[row + 1]
         IN  remove_items([items |-> take(st.items, row),
                           index |-> st.index \ {item.path},
                           history |-> Append(st.history, <<row, item>>)],
                          order, done + 1)

\* remove_selected, lines 80-100
remove_selected(its, index, history, order) ==
    LET st == remove_items([items |-> its, index |-> index,
                            history |-> history], order, 0)
    IN  [items |-> st.items, index |-> st.index,
         history |-> cap_history(st.history), ret |-> Len(order)]

\* an undo that puts the item back as the last row
undo_delete_last(its, index, history) ==
    IF history = <<>>
    THEN [items |-> its, index |-> index, history |-> history, ret |-> FALSE]
    ELSE LET entry == history[Len(history)]
         IN  [items |-> Append(its, entry[2]),
              index |-> index \cup {entry[2].path},
              history |-> SubSeq(history, 1, Len(history) - 1),
              ret |-> TRUE]

\* undo_delete, lines 104-111
undo_delete(its, index, history) ==
    IF history = <<>>
    THEN [items |-> its, index |-> index, history |-> history, ret |-> FALSE]
    ELSE LET entry == history[Len(history)]
         IN  [items |-> insert(its, entry[1], entry[2]),
              index |-> index \cup {entry[2].path},
              history |-> SubSeq(history, 1, Len(history) - 1),
              ret |-> TRUE]

\* clear_all, lines 114-116
clear_all(its, index, history) ==
    [items |-> <<>>, index |-> {}, history |-> <<>>, ret |-> None]

\* the loop of from_list, lines 158-169, from entry number done + 1 on; ret
\* counts the items added
RECURSIVE add_entries(_, _, _)
add_entries(st, data, done) ==
    IF done = Len(data) THEN st
    ELSE LET d == data[done + 1]
             added == add_track(st.items, st.index, st.history, d)
         IN  IF d.path # "" /\ FileExists(d.path)
             THEN add_entries([added EXCEPT !.ret =
                                  IF added.ret # None THEN st.ret + 1 ELSE st.ret],
                              data, done + 1)
             ELSE add_entries(st, data, done + 1)

\* from_list, lines 155-170
from_list(its, index, history, data, replace) ==
    LET start == IF replace THEN clear_all(its, index, history)
                 ELSE [items |-> its, index |-> index, history |-> history]
    IN  add_entries([items |-> start.items, index |-> start.index,
                     history |-> start.history, ret |-> 0], data, 0)

(***************************************************************************)
(* The playlist's methods called in any order, from a playlist as built or *)
(* from one whose undo history is nearly full.                             *)
(***************************************************************************)
TrackA == [path |-> "a.flac", title |-> "one"]
TrackB == [path |-> "b.wav", title |-> "two"]

\* the playlist after TrackA and TrackB were added and removed in turn, n
\* times in all, one item at a time, and both were then added again
Worn(n) ==
    /\ items = <<TrackA, TrackB>>
    /\ path_index = {TrackA.path, TrackB.path}
    /\ undo_history = [i \in 1..n |-> <<0, IF i % 2 = 1 THEN TrackA ELSE TrackB>>]
    /\ ops = 0

\* the selections of a playlist of n items: the rows of up to n different
\* items, in any order
Orders(n) ==
    UNION { { o \in [1..m -> 0..(n - 1)] :
                \A i, j \in 1..m : i # j => o[i] # o[j] } : m \in 0..n }

\* the lists handed to from_list: entries of a saved playlist, one of them
\* of a file that is gone, one without a path, and two of one path
SavedLists ==
    { <<>>,
      <<TrackA, TrackB>>,
      <<[path |-> "gone.ogg", title |-> "one"], TrackB>>,
      <<[path |-> "", title |-> "two"]>>,
      <<TrackA, [path |-> "a.flac", title |-> "two"]>> }

CalledFor(op, arg, ret) == [op |-> op, arg |-> arg, ret |-> ret]

PlaylistInit ==
    /\ PlayerBuilt(200, 2000)
    /\ bar_count = DefaultBars
    /\ call = CalledFor("none", 0, None)
    /\ \/ PlaylistBuilt
       \/ \E n \in {MAX_HISTORY - 1, MAX_HISTORY} : Worn(n)

\* the call has returned what: the playlist is as it left it
returned(op, arg, what) ==
    /\ ops < MaxOps
    /\ ops' = ops + 1
    /\ items' = what.items
    /\ path_index' = what.index
    /\ undo_history' = what.history
    /\ call' = CalledFor(op, arg, what.ret)
    /\ UNCHANGED <<loaderVars, fg, timer_fft, stdout, bar_count, viewVars, frames>>

add_track_call(track) ==
    /\ Len(items) < MaxItems
    /\ returned("add_track", track,
                add_track(items, path_index, undo_history, track))

remove_selected_call(order) ==
    returned("remove_selected", order,
             remove_selected(items, path_index, undo_history, order))

undo_delete_call ==
    /\ Len(items) < MaxItems
    /\ returned("undo_delete", 0, undo_delete(items, path_index, undo_history))

clear_all_call ==
    returned("clear_all", 0, clear_all(items, path_index, undo_history))

from_list_call(data, replace) ==
    /\ replace \/ Len(items) + Len(data) <= MaxItems
    /\ returned("from_list", <<data, replace>>,
                from_list(items, path_index, undo_history, data, replace))

PlaylistNext ==
    \/ \E track \in Tracks : add_track_call(track)
    \/ \E order \in Orders(Len(items)) : remove_selected_call(order)
    \/ undo_delete_call
    \/ clear_all_call
    \/ \E data \in SavedLists, replace \in BOOLEAN : from_list_call(data, replace)

SpecPlaylist == PlaylistInit /\ [][PlaylistNext]_vars

(***************************************************************************)
(* Properties of SampleLoader and of the tick                              *)
(***************************************************************************)
\* the decode thread of the most recent load() that has returned
Latest == threads[Len(threads)]
AllExited == \A k \in 1..Len(threads) : threads[k].pc = "exit"
EarlierExited == \A k \in 1..(Len(threads) - 1) : threads[k].pc = "exit"
NoData == samples = None /\ sample_rate = 0
Decodable(path) == sf_read(path).ok

\* C1: after load(A) then load(B), once every decode has finished and no load
\* is running, the exposed (samples, sample_rate) is the result of the latest
\* load's decode, or no-data if that decode failed; a stale decode never
\* overwrites it.
C1_LatestLoadWins ==
    (fg.pc = "idle" /\ Len(threads) >= 2 /\ AllExited) =>
        IF Decodable(Latest.path)
        THEN samples = Latest.samples /\ sample_rate = Latest.rate
        ELSE NoData

\* C2: whenever a tick can fire between a load() returning and that load's own
\* decode publishing its buffer, the tick reads samples as absent (and so
\* updates no view), whatever earlier decodes are still doing.
C2_TickSeesNoDataUntilOwnDecode ==
    (fg.pc = "idle" /\ timer_fft /\ Len(threads) >= 1
        /\ Latest.pc \in {"L149", "L150"}) => samples = None

\* C3: whenever the foreground thread can read the loader, the exposed pair
\* is (absent, 0) or the buffer and the rate that one single decode produced
\* together.
C3_PairFromOneDecode ==
    fg.pc = "idle" =>
        \/ NoData
        \/ /\ samples # None
           /\ sample_rate = threads[samples.id].rate

\* C4: within one load() call line 142 resets samples, then line 143 resets
\* sample_rate, and only then is the call's decode thread created and started,
\* in the step in which load returns; a decode thread writes only once it has
\* been started, so never before the reset of its own call.
C4_ResetBeforeThreadStart ==
    [][ /\ (fg.pc = "idle" /\ fg'.pc # "idle") =>
              (fg'.pc = "L143" /\ samples' = None /\ threads' = threads)
        /\ (fg.pc = "L143" /\ fg'.pc # "L143") =>
              (fg'.pc = "L144" /\ fg'.path = fg.path /\ sample_rate' = 0
               /\ threads' = threads)
        /\ (fg.pc = "L144" /\ fg'.pc # "L144") =>
              (fg'.pc = "idle"
               /\ threads' = Append(threads, [pc |-> "L149", path |-> fg.path,
                                              samples |-> None, rate |-> 0]))
        /\ (Len(threads') # Len(threads)) => (fg.pc = "L144" /\ fg'.pc = "idle")
        /\ \A k \in 1..Len(threads) :
              threads'[k] # threads[k] => (fg' = fg /\ Len(threads') = Len(threads))
      ]_vars

\* C4 witness: a load has reset both fields and returned, and its decode thread
\* has since published its buffer
C4_Witness ==
    /\ fg.pc = "idle"
    /\ Len(threads) = 1
    /\ threads[1].pc = "L151"
    /\ samples = threads[1].samples
    /\ sample_rate = 0

\* the current (or most recent) load is of a file that cannot be decoded and
\* no other decode is in flight
FailingLoadAlone ==
    \/ fg.pc \in {"L143", "L144"} /\ ~Decodable(fg.path) /\ AllExited
    \/ fg.pc = "idle" /\ Len(threads) >= 1 /\ ~Decodable(Latest.path)
         /\ EarlierExited

\* what that load has reset so far
ResetSoFar == samples = None /\ (fg.pc = "L143" \/ sample_rate = 0)

\* C5: a load of an undecodable file entered while no decode is in flight
\* resets the state to no-data, and from then on, until the next load, the
\* state stays no-data and no step (a tick included) changes any view; the
\* failing decode goes to its except clause, prints its diagnostic there and
\* ends, and the foreground thread is never disturbed by it.
C5_FailedDecodeLeavesNoData ==
    [][ /\ (fg.pc = "idle" /\ fg'.pc = "L143" /\ AllExited) => samples' = None
        /\ (FailingLoadAlone /\ ResetSoFar) =>
              /\ ResetSoFar'
              /\ viewVars' = viewVars
              /\ <<"[FFT]", "">> \in stdout' => <<"[FFT]", "">> \in stdout
        /\ \A k \in 1..Len(threads) :
              (~Decodable(threads[k].path) /\ threads'[k] # threads[k]) =>
                  /\ fg' = fg
                  /\ samples' = samples /\ sample_rate' = sample_rate
                  /\ \/ threads[k].pc = "L149" /\ threads'[k].pc = "L153"
                     \/ /\ threads[k].pc = "L153" /\ threads'[k].pc = "exit"
                        /\ <<"[SampleLoader] Cannot read", threads[k].path>>
                              \in stdout'
      ]_vars

\* C5 witness: after a track was loaded and shown, a load of an undecodable
\* file has returned, its decode has failed and ended, and the tick can fire
C5_Witness ==
    /\ fg.pc = "idle"
    /\ timer_fft
    /\ Len(threads) = 2
    /\ Decodable(threads[1].path)
    /\ ~Decodable(Latest.path)
    /\ AllExited
    /\ NoData
    /\ frames >= 1
    /\ <<"[SampleLoader] Cannot read", Latest.path>> \in stdout

(***************************************************************************)
(* Properties of compute_fft_frame, over the direct calls of SpecFft       *)
(***************************************************************************)
Returned == call.ret # Pending
InUnit(p) == p[1] >= 0 /\ p[1] <= p[2]
Frames(buffer) == IF buffer = None THEN 0 ELSE buffer.n
Channels(buffer) == IF buffer = None THEN 0 ELSE buffer.ch
\* the call's buffer has a full window and a channel and its position is valid
ValidCall ==
    /\ Frames(call.samples) >= FFT_BLOCK
    /\ Channels(call.samples) >= 1
    /\ InUnit(call.position)
GotFrame == Returned /\ call.ret.tag = "frame"

\* C6: the call returns None (it does not raise) when the buffer is absent,
\* has fewer than 2048 frames, or the position is outside [0, 1]; with at
\* least 2048 frames, at least one channel and a position in [0, 1] it
\* returns a frame.
C6_AbsentOrFrame ==
    Returned =>
        /\ (call.samples = None \/ Frames(call.samples) < FFT_BLOCK
               \/ ~InUnit(call.position)) => call.ret = None
        /\ ValidCall => call.ret.tag = "frame"

\* C6 witness: a buffer of exactly 2048 frames analysed at position 1
C6_Witness ==
    /\ GotFrame
    /\ Frames(call.samples) = FFT_BLOCK
    /\ call.position = ROne

\* floor(p * n) and clamp, computed on their own
FloorOfProduct(p, n) == (p[1] * n) \div p[2]
Clamp(x, lo, hi) == IF x < lo THEN lo ELSE IF x > hi THEN hi ELSE x

\* C7: for N >= 2048 frames and p in [0, 1] the window starts at
\* clamp(floor(p * N), 0, N - 2048): within [0, N - 2048], 0 for p = 0,
\* N - 2048 for p = 1, and the window [start, start + 2048) is cut whole from
\* the buffer (the returned waveforms begin at that frame).
C7_WindowStartClamped ==
    (Returned /\ ValidCall) =>
        LET n == call.samples.n
            start == WindowStart(n, call.position)
            block == Block(call.samples, call.position)
        IN  /\ start = Clamp(FloorOfProduct(call.position, n), 0, n - FFT_BLOCK)
            /\ 0 <= start /\ start <= n - FFT_BLOCK
            /\ call.position = RZero => start = 0
            /\ call.position = ROne => start = n - FFT_BLOCK
            /\ start + FFT_BLOCK <= n
            /\ block.shape0 = FFT_BLOCK
            /\ block.phase = start % call.samples.period
            /\ call.ret.tag = "frame"
            /\ call.ret.left.n = FFT_BLOCK
            /\ call.ret.left.phase = start % call.samples.period

\* C7 witness: a position whose floor(p * N) lies beyond the last full window
C7_Witness ==
    /\ GotFrame
    /\ call.samples.n = 6000
    /\ call.position = <<7, 8>>
    /\ WindowStart(call.samples.n, call.position) = 6000 - FFT_BLOCK

\* C8: for a fixed buffer of N >= 2048 frames the window start does not
\* decrease when the position grows within [0, 1].
C8_WindowStartMonotone ==
    (Returned /\ ValidCall) =>
        \A p \in FftPositions :
            (InUnit(p) /\ RLe(p, call.position)) =>
                WindowStart(call.samples.n, p)
                    <= WindowStart(call.samples.n, call.position)

\* C8 witness: two positions with different window starts, and two that the
\* clamp maps to the same start
C8_Witness ==
    /\ GotFrame
    /\ call.samples.n = 6000
    /\ call.position = ROne
    /\ WindowStart(6000, <<3, 8>>) < WindowStart(6000, <<1, 2>>)
    /\ WindowStart(6000, <<7, 8>>) = WindowStart(6000, ROne)

\* C9: every frame returned has exactly bar_count bars and left, right and
\* mono of exactly 2048 samples each.
C9_Lengths ==
    GotFrame =>
        /\ Len(call.ret.bars) = call.bar_count
        /\ call.ret.left.n = FFT_BLOCK /\ Len(List(call.ret.left)) = FFT_BLOCK
        /\ call.ret.right.n = FFT_BLOCK
        /\ call.ret.mono.n = FFT_BLOCK

\* C9 witness: frames with the largest bar count, from a buffer longer than
\* one window
C9_Witness ==
    /\ GotFrame
    /\ call.bar_count = MaxBars
    /\ Len(call.ret.bars) = MaxBars
    /\ call.samples.n > FFT_BLOCK

\* a waveform or a spectrum holds nothing but zeros
ZeroWave(v) == \A i \in 0..(v.n - 1) : Elem(v, i) = 0
ZeroBins(fft) == \A k \in 0..(fft.n - 1) : Bin(fft, k) = RZero
\* the largest magnitude a waveform or a spectrum holds is exactly 1
UnitWave(v) ==
    /\ \A i \in 0..(v.n - 1) : Abs(Elem(v, i)) <= v.den
    /\ \E i \in 0..(v.n - 1) : Abs(Elem(v, i)) = v.den
UnitBins(fft) ==
    /\ \A k \in 0..(fft.n - 1) : RLe(RAbs(Bin(fft, k)), ROne)
    /\ \E k \in 0..(fft.n - 1) : RAbs(Bin(fft, k)) = ROne
\* out is src left as it is when src is all zeros, else scaled to peak 1
NormalizedWave(src, out) ==
    IF ZeroWave(src) THEN out = src /\ ZeroWave(out) ELSE UnitWave(out)

\* C10: of the 512-bin spectrum and the left, right and mono waveforms of a
\* frame, each is all zeros when what it is normalised from is all zeros
\* (nothing is divided then), and else has largest magnitude exactly 1; so
\* no value of the result, the bars sampled from the spectrum included,
\* exceeds 1 in magnitude.
C10_Normalized ==
    (GotFrame /\ ValidCall) =>
        LET w == Window(call.samples, call.position)
            raw == RawSpectrum(w.mono)
            fft == Spectrum(w.mono)
        IN  /\ NormalizedWave(w.left, call.ret.left)
            /\ NormalizedWave(w.right, call.ret.right)
            /\ NormalizedWave(w.mono, call.ret.mono)
            /\ IF ZeroBins(raw) THEN fft = raw /\ ZeroBins(fft) ELSE UnitBins(fft)
            /\ \A k \in 1..Len(call.ret.bars) :
                  /\ RLe(RZero, call.ret.bars[k])
                  /\ RLe(call.ret.bars[k], ROne)
                  /\ \E b \in 0..(fft.n - 1) : call.ret.bars[k] = Bin(fft, b)

\* C10 witness: a frame whose left channel peaks on a negative sample, whose
\* right channel does not, and whose spectrum is not all zeros
C10_Witness ==
    /\ GotFrame
    /\ call.bar_count = MaxBars
    /\ call.samples.n = 6000
    /\ call.samples.tone[1] = Tone(1, -3)
    /\ ~ZeroWave(call.ret.left)
    /\ ~ZeroBins(Spectrum(Window(call.samples, call.position).mono))

\* the largest magnitude among the numerators of a waveform, element by element
PeakOf(v) == MaxSet({Abs(Elem(v, i)) : i \in 0..(v.n - 1)})
\* out is src with every element divided by src's own peak
ScaledByOwnPeak(src, out) ==
    LET peak == Rat(PeakOf(src), src.den)
    IN  /\ out.n = src.n
        /\ \A i \in 1..src.n : At(out, i) = RDiv(At(src, i), peak)
\* the window of the call has left and right peaks that differ and are not 0
PeaksDiffer ==
    LET w == Window(call.samples, call.position)
    IN  /\ PeakOf(w.left) # PeakOf(w.right)
        /\ PeakOf(w.left) > 0
        /\ PeakOf(w.right) > 0

\* C11: for a window whose left and right peaks differ and are both non-zero,
\* left, right and mono are each divided by their own peak magnitude, so each
\* of the three returned waveforms has peak magnitude exactly 1.
C11_IndependentPeaks ==
    (Returned /\ ValidCall /\ PeaksDiffer) =>
        LET w == Window(call.samples, call.position)
        IN  /\ call.ret.tag = "frame"
            /\ ScaledByOwnPeak(w.left, call.ret.left)
            /\ ScaledByOwnPeak(w.right, call.ret.right)
            /\ ScaledByOwnPeak(w.mono, call.ret.mono)
            /\ UnitWave(call.ret.left)
            /\ UnitWave(call.ret.right)
            /\ UnitWave(call.ret.mono)

\* C11 witness: a stereo window with left peak 3/4, right peak 1/2 and mono
\* peak 5/8
C11_Witness ==
    /\ GotFrame
    /\ ValidCall
    /\ PeaksDiffer
    /\ call.samples.tone = <<Tone(2, 1), Tone(0, 2)>>
    /\ PeakOf(Window(call.samples, call.position).left) = 3
    /\ PeakOf(Window(call.samples, call.position).right) = 2
    /\ PeakOf(Window(call.samples, call.position).mono) = 5

\* buffer[row, c] (buffer[row] when it is flat), rows and channels from 0,
\* read off the buffer itself
Sample(buffer, row, c) ==
    Rat(IF row % buffer.period = 0
        THEN buffer.tone[c + 1].dc + buffer.tone[c + 1].amp
        ELSE buffer.tone[c + 1].dc, buffer.den)
\* out is what norm makes of src: src itself when src is all zeros, else src
\* divided by its own peak
NormOf(src, out) ==
    IF PeakOf(src) = 0
    THEN out.n = src.n /\ \A i \in 1..src.n : At(out, i) = At(src, i)
    ELSE ScaledByOwnPeak(src, out)
SameWave(a, b) == a.n = b.n /\ \A i \in 1..a.n : At(a, i) = At(b, i)
\* the window's waveforms before normalisation are channels cl and cr of the
\* buffer from row start on, and their average
CutFrom(buffer, start, cl, cr, w) ==
    \A i \in 1..FFT_BLOCK :
        /\ At(w.left, i) = Sample(buffer, start + i - 1, cl)
        /\ At(w.right, i) = Sample(buffer, start + i - 1, cr)
        /\ At(w.mono, i) = RDiv(RAdd(Sample(buffer, start + i - 1, cl),
                                     Sample(buffer, start + i - 1, cr)), <<2, 1>>)

\* C12: for a buffer with one channel (or a flat one) the single channel is
\* both left and right, and the returned left, right and mono are equal
\* element by element; for a buffer with two or more channels left and right
\* are channels 0 and 1 of the window and mono is their element-wise average,
\* each then normalised.
C12_MonoDuplicatedStereoAveraged ==
    (Returned /\ ValidCall) =>
        LET w == Window(call.samples, call.position)
            start == Clamp(FloorOfProduct(call.position, call.samples.n), 0,
                           call.samples.n - FFT_BLOCK)
            stereo == call.samples.ndim = 2 /\ call.samples.ch >= 2
        IN  /\ call.ret.tag = "frame"
            /\ CutFrom(call.samples, start, 0, IF stereo THEN 1 ELSE 0, w)
            /\ NormOf(w.left, call.ret.left)
            /\ NormOf(w.right, call.ret.right)
            /\ NormOf(w.mono, call.ret.mono)
            /\ ~stereo => /\ SameWave(call.ret.left, call.ret.right)
                          /\ SameWave(call.ret.left, call.ret.mono)

\* C12 witness, mono case: a one-channel buffer whose three returned waveforms
\* are equal and not all zeros
C12_Witness ==
    /\ GotFrame
    /\ call.samples.ndim = 2
    /\ call.samples.ch = 1
    /\ SameWave(call.ret.left, call.ret.mono)
    /\ ~ZeroWave(call.ret.mono)

\* the call analyses 4096 mono frames of the constant 0.5 at position 0.5
\* with 8 bars
ConstantScenario ==
    /\ call.samples = Array(1, 2 * FFT_BLOCK, 1, 1, 2, <<Tone(1, 0)>>)
    /\ call.position = <<1, 2>>
    /\ call.bar_count = 8
AllOnes(v) == \A i \in 1..v.n : At(v, i) = ROne

\* C13 as stated: bar 0 samples bin 0 of the spectrum, so that for the
\* constant buffer the first bar is the non-zero one, the other bars are 0 and
\* the mono waveform is all 1.0.
C13_FirstBarIsBinZero ==
    (GotFrame /\ ValidCall /\ call.bar_count >= 1) =>
        LET fft == Spectrum(Window(call.samples, call.position).mono)
        IN  /\ call.ret.bars[1] = Bin(fft, 0)
            /\ ConstantScenario =>
                  /\ call.ret.bars[1] # RZero
                  /\ \A k \in 2..Len(call.ret.bars) : call.ret.bars[k] = RZero
                  /\ AllOnes(call.ret.mono)

\* C13 amended: the bar extraction starts at bin 1 (10^0) and, with two or
\* more bars, ends at bin 511; every bar samples a bin in 1..511 and bin 0 is
\* never sampled.  For the constant buffer the spectrum is 1 in bin 0 and 0
\* elsewhere, so every bar, the first included, is 0, while the mono waveform
\* is all 1.0.
C13_FirstBarIsBinOne ==
    (GotFrame /\ ValidCall /\ call.bar_count >= 1) =>
        LET fft == Spectrum(Window(call.samples, call.position).mono)
            last == Len(call.ret.bars)
        IN  /\ fft.n = FFT_BINS
            /\ call.ret.bars[1] = Bin(fft, 1)
            /\ last >= 2 => call.ret.bars[last] = Bin(fft, FFT_BINS - 1)
            /\ \A k \in 1..last :
                  \E b \in 1..(FFT_BINS - 1) : call.ret.bars[k] = Bin(fft, b)
            /\ ConstantScenario =>
                  /\ Bin(fft, 0) = ROne
                  /\ \A b \in 1..(FFT_BINS - 1) : Bin(fft, b) = RZero
                  /\ \A k \in 1..last : call.ret.bars[k] = RZero
                  /\ AllOnes(call.ret.mono)

\* C13 witness: the constant buffer analysed; all 8 bars are 0 although bin 0
\* of the spectrum is 1
C13_Witness ==
    /\ GotFrame
    /\ ConstantScenario
    /\ Len(call.ret.bars) = 8
    /\ call.ret.bars[1] = RZero
    /\ Bin(Spectrum(Window(call.samples, call.position).mono), 0) = ROne

(***************************************************************************)
(* Properties of the bar indices, over SpecBars                            *)
(***************************************************************************)
\* C14: for a bar count of the configured range and a 512-bin spectrum, every
\* bar index lies in [0, 511] and no index is smaller than the one before it
\* (equal neighbours are allowed).
C14_BarIndicesMonotone ==
    /\ call.bar_count \in BarsMin..BarsMax
    /\ \A k \in 1..Len(call.ret) :
          /\ 0 <= call.ret[k] /\ call.ret[k] <= FFT_BINS - 1
          /\ k > 1 => call.ret[k - 1] <= call.ret[k]

\* C14 witness: all 128 indices of the largest bar count, with repeated
\* indices at the low end and the last bin at the high end
C14_Witness ==
    /\ call.bar_count = BarsMax
    /\ Len(call.ret) = BarsMax
    /\ call.ret[1] = call.ret[2]
    /\ call.ret[BarsMax - 1] < call.ret[BarsMax]
    /\ call.ret[BarsMax] = FFT_BINS - 1

(***************************************************************************)
(* Properties of the bounded histories, over SpecWidgets                   *)
(***************************************************************************)
\* the step is a call of the method op (a call that repeats the last one and
\* changes nothing is no step)
IsCall(op) == call'.op = op /\ (call' # call \/ viewVars' # viewVars)
\* the most recent n entries of xs, in their order
NewestOf(xs, n) == [i \in 1..n |-> xs[Len(xs) - n + i]]
\* xs with x appended and, if that makes more than cap entries, without its
\* oldest entry
Fifo(xs, cap, x) ==
    IF Len(xs) < cap THEN xs \o <<x>>
    ELSE [i \in 1..Len(xs) |-> IF i < Len(xs) THEN xs[i + 1] ELSE x]

\* C15: with every cap at least 1, after every add_column and set_max_cols
\* call, in any order, the number of stored columns is at most the current
\* cap.
C15_ColumnsWithinCap ==
    /\ max_cols >= 1
    /\ Len(columns) <= max_cols

\* C15 witness: an add_column call has left the history exactly full, below
\* the largest cap
C15_Witness ==
    /\ call.op = "add_column"
    /\ Len(columns) = max_cols
    /\ max_cols < MaxCap
    /\ columns[Len(columns)] = call.arg

\* C16: add_column stores the new column as the newest entry and, when the
\* history was full, drops exactly the oldest column, the others keeping
\* their order; the cap is left alone.
C16_AddColumnFifo ==
    [][ IsCall("add_column") =>
          /\ max_cols' = max_cols
          /\ columns'[Len(columns')] = call'.arg
          /\ columns' = Fifo(columns, max_cols, call'.arg)
          /\ Len(columns) < max_cols =>
                (Len(columns') = Len(columns) + 1
                 /\ \A i \in 1..Len(columns) : columns'[i] = columns[i])
          /\ Len(columns) = max_cols =>
                (Len(columns') = max_cols
                 /\ \A i \in 1..(max_cols - 1) : columns'[i] = columns[i + 1])
      ]_vars

\* C16 witness: cap + 1 or more columns appended under a cap of at least 2;
\* the history is full, its newest column is the one just appended and it
\* holds two different columns
C16_Witness ==
    /\ call.op = "add_column"
    /\ max_cols >= 2
    /\ Len(columns) = max_cols
    /\ columns[Len(columns)] = call.arg
    /\ columns[1] # columns[2]

\* C17: set_max_cols(n) and set_max_points(n) with n >= 1 store n as the cap
\* and, when the history holds more than n entries, leave exactly its most
\* recent n entries in their order; a history of at most n entries is
\* unchanged.
C17_ShrinkKeepsNewest ==
    [][ /\ IsCall("set_max_cols") =>
              /\ call'.arg >= 1
              /\ max_cols' = call'.arg
              /\ columns' = IF Len(columns) > call'.arg
                            THEN NewestOf(columns, call'.arg)
                            ELSE columns
        /\ IsCall("set_max_points") =>
              /\ call'.arg >= 1
              /\ max_points' = call'.arg
              /\ flux_history' = IF Len(flux_history) > call'.arg
                                 THEN NewestOf(flux_history, call'.arg)
                                 ELSE flux_history
      ]_vars

\* C17 witness: a cap below the largest has just been set on a spectrogram
\* whose columns fill it, while the flux history holds two different values
C17_Witness ==
    /\ call.op = "set_max_cols"
    /\ call.arg < MaxCap
    /\ max_cols = call.arg
    /\ Len(columns) = max_cols
    /\ Len(flux_history) >= 2
    /\ flux_history[1] # flux_history[2]

\* the widget has a previous vector of the length of x
Comparable(x) == flux_prev # None /\ Len(flux_prev) = Len(x)

\* C18: update_spectrum appends nothing and leaves the flux history as it is
\* when there is no previous vector or its length differs from the supplied
\* one; after every call the previous vector is the vector supplied.
C18_NoFluxWithoutPrevious ==
    [][ IsCall("update_spectrum") =>
          /\ flux_prev' = call'.arg
          /\ max_points' = max_points
          /\ ~Comparable(call'.arg) => flux_history' = flux_history
      ]_vars

\* C18 witness: a history that holds a value, then a call with a vector of
\* another length than the previous one
C18_Witness ==
    /\ call = Called("update_spectrum", Ones(12))
    /\ flux_prev = Ones(12)
    /\ Len(flux_history) = 1
    /\ flux_history[1] = <<1, 5>>

\* sum of |a[i] - b[i]| over i = from .. Len(a)
RECURSIVE SumAbsDiff(_, _, _)
SumAbsDiff(a, b, from) ==
    IF from > Len(a) THEN RZero
    ELSE RAdd(RAbs(RSub(a[from], b[from])), SumAbsDiff(a, b, from + 1))
\* min(1, sum_i |cur[i] - prev[i]| / 10)
FluxOf(cur, prev) ==
    LET scaled == RDiv(SumAbsDiff(cur, prev, 1), <<10, 1>>)
    IN  IF RLe(scaled, ROne) THEN scaled ELSE ROne

\* C19: when a previous vector of the same length exists, the value that
\* update_spectrum appends is min(1, sum |current - previous| / 10): 0 for a
\* vector equal to the previous one, 0.2 for [0,1] after [1,0]; and every
\* value in the flux history lies in [0, 1].
C19_FluxValue ==
    [][ /\ (IsCall("update_spectrum") /\ Comparable(call'.arg)) =>
              /\ flux_history' # <<>>
              /\ flux_history'[Len(flux_history')] = FluxOf(call'.arg, flux_prev)
              /\ call'.arg = flux_prev =>
                    flux_history'[Len(flux_history')] = RZero
              /\ (flux_prev = <<ROne, RZero>> /\ call'.arg = <<RZero, ROne>>) =>
                    flux_history'[Len(flux_history')] = <<1, 5>>
        /\ \A i \in 1..Len(flux_history') :
              RLe(RZero, flux_history'[i]) /\ RLe(flux_history'[i], ROne)
      ]_vars

\* C19 witness: the history holds 0.2, from [0,1] after [1,0], then 0, from
\* the same vector again, then 1, the clamped flux 1.2 of twelve ones after
\* twelve zeros
C19_Witness ==
    /\ call = Called("update_spectrum", Ones(12))
    /\ flux_prev = Ones(12)
    /\ flux_history = <<<<1, 5>>, RZero, ROne>>

\* C20: with every cap at least 1, after every update_spectrum and
\* set_max_points call the flux history holds at most the current cap of
\* values, and an update_spectrum that appends to a full history removes its
\* oldest value, the others keeping their order.
C20_FluxWithinCap ==
    [][ /\ max_points' >= 1
        /\ Len(flux_history') <= max_points'
        /\ (IsCall("update_spectrum") /\ Comparable(call'.arg)) =>
              flux_history' = Fifo(flux_history, max_points,
                                   flux_history'[Len(flux_history')])
      ]_vars

\* C20 witness: update_spectrum has appended to a history that is full under
\* a cap of at least 2 and holds two different values
C20_Witness ==
    /\ call.op = "update_spectrum"
    /\ max_points >= 2
    /\ Len(flux_history) = max_points
    /\ flux_history[1] # flux_history[2]

(***************************************************************************)
(* Properties of the tick and of the views it drives                       *)
(***************************************************************************)
\* the step is a tick: only _update_fft assigns call
IsTick == call' # call
\* the tick of this step showed a frame / showed none
FrameTick == IsTick /\ call'.ret.tag = "frame"
IdleTick == IsTick /\ call'.ret.tag # "frame"

\* C21: a tick that finds no buffer, or whose compute_fft_frame returns None
\* or raises, leaves every view as it was (bars, columns, oscilloscope,
\* Lissajous pair, flux history and previous vector, VU levels, both caps)
\* and returns normally to the event loop, the timer still running.
C21_IdleTickChangesNoView ==
    [][ IdleTick =>
          /\ call'.ret \in {None, Raise}
          /\ viewVars' = viewVars
          /\ frames' = frames
          /\ fg' = Idle
          /\ timer_fft' = timer_fft
      ]_vars

\* C21 witness: the views hold a frame with non-zero VU levels, and the last
\* tick, on a published buffer, got None from compute_fft_frame
C21_Witness ==
    /\ call.ret = None
    /\ call.samples # None
    /\ frames >= 1
    /\ Len(bars) > 0
    /\ vu_left # RZero
    /\ osc.n > 0

\* the three ways of a tick without a frame, each with the views untouched:
\* no buffer after a frame was shown; None; an exception, reported on stdout
C21_NoBufferCase == call = [NoCall EXCEPT !.ret = None] /\ frames >= 1
C21_RaiseCase == call.ret = Raise /\ <<"[FFT]", "">> \in stdout /\ bars = <<>>

\* the sum of |vec[i]| * vec.den over the elements lo..hi, counted from 0,
\* taken one element at a time
RECURSIVE AbsTotal(_, _, _)
AbsTotal(vec, lo, hi) ==
    IF lo > hi THEN 0
    ELSE IF lo = hi THEN Abs(Elem(vec, lo))
    ELSE LET mid == (lo + hi) \div 2
         IN  AbsTotal(vec, lo, mid) + AbsTotal(vec, mid + 1, hi)
\* min(1, mean(|vec[i]|))
LevelOf(vec) ==
    LET mean == Rat(AbsTotal(vec, 0, vec.n - 1), vec.n * vec.den)
    IN  IF RLe(mean, ROne) THEN mean ELSE ROne
InUnitInterval(x) == RLe(RZero, x) /\ RLe(x, ROne)

\* C22: a tick that produces a frame sets both VU levels together, to
\* min(1, mean |left[i]|) and min(1, mean |right[i]|) of that frame's
\* normalised left and right waveforms; both levels lie in [0, 1].
C22_VuLevels ==
    [][ /\ FrameTick =>
              /\ vu_left' = LevelOf(call'.ret.left)
              /\ vu_right' = LevelOf(call'.ret.right)
        /\ InUnitInterval(vu_left') /\ InUnitInterval(vu_right')
      ]_vars

\* C22 witness: a second frame, of a track whose channels differ, has
\* replaced both levels; they differ and lie strictly between 0 and 1
C22_Witness ==
    /\ frames = 2
    /\ call.ret.tag = "frame"
    /\ vu_left = LevelOf(call.ret.left)
    /\ vu_left # vu_right
    /\ RLt(RZero, vu_right) /\ RLt(vu_left, ROne)

\* the tick of this step called compute_fft_frame with the arguments of the
\* call before it
SameArguments ==
    /\ call.ret # Pending
    /\ call'.samples = call.samples
    /\ call'.position = call.position
    /\ call'.bar_count = call.bar_count

C24_ZeroCapEmpties ==
    /\ call = Called("set_max_cols", 0) => (max_cols = 0 /\ columns = <<>>)
    /\ call = Called("set_max_points", 0) =>
          (max_points = 0 /\ flux_history = <<>>)

(***************************************************************************)
(* The views together, over SpecTicks and SpecFrames                       *)
(***************************************************************************)
\* what a frame leaves in the views other than the two histories
Shown == <<bars, osc, lis_left, lis_right, flux_prev, vu_left, vu_right>>

\* C25: with caps of at least 1, once a tick has produced a frame the views
\* agree with the most recent frame produced: a tick with a frame sets the
\* bars, the newest column, the previous vector of the flux widget, the
\* oscilloscope, the Lissajous pair and the VU levels from that one frame;
\* no other step (a tick without a frame, the settings accepted, a load, a
\* decode) changes any of them; so the bars, the newest column and the
\* previous vector are always the same bar vector.
C25_ViewsOfOneFrame ==
    [][ /\ FrameTick =>
              /\ bars' = call'.ret.bars
              /\ osc' = call'.ret.mono
              /\ lis_left' = call'.ret.left
              /\ lis_right' = call'.ret.right
              /\ vu_left' = LevelOf(call'.ret.left)
              /\ vu_right' = LevelOf(call'.ret.right)
        /\ ~FrameTick => Shown' = Shown
        /\ frames' >= 1 =>
              /\ columns' # <<>>
              /\ columns'[Len(columns')] = bars'
              /\ flux_prev' = bars'
      ]_vars

\* C25 witness: two frames or more were shown, the settings were accepted
\* with another bar count since, and the last tick had no frame
C25_Witness ==
    /\ frames >= 2
    /\ call.ret = None
    /\ max_cols = 1
    /\ Len(flux_history) = 1
    /\ max_points > 1
    /\ columns = <<bars>>
    /\ flux_prev = bars
    /\ Len(bars) # bar_count
    /\ vu_left = LevelOf(lis_left)

\* the bar count has been the same since the start (SpecFrames starts with
\* the largest and the dialog sets a smaller one)
BarCountConstant == bar_count = MaxBars
\* the tick of this step produced a frame of another bar count than the
\* frame before it
ResizedFrameTick ==
    /\ FrameTick
    /\ flux_prev # None
    /\ Len(flux_prev) # Len(call'.ret.bars)

\* C26: from empty histories and with unchanged caps c_s, c_f >= 1, after k
\* ticks that produced a frame the spectrogram holds min(k, c_s) columns and,
\* while the bar count has been constant, the flux history holds
\* min(max(k - 1, 0), c_f) values; a tick with a frame of a changed bar
\* count adds a column and no flux value.
C26_HistoryLengths ==
    [][ /\ max_cols' = max_cols /\ max_points' = max_points
        /\ Len(columns') = Min(frames', max_cols')
        /\ BarCountConstant' =>
              Len(flux_history') = Min(Max(frames' - 1, 0), max_points')
        /\ ResizedFrameTick =>
              /\ Len(columns') = Min(Len(columns) + 1, max_cols)
              /\ columns'[Len(columns')] = call'.ret.bars
              /\ flux_history' = flux_history
      ]_vars

\* C26 witness: three frames of one bar count under caps of 2 columns and 1
\* flux value: 2 columns and 1 value are left
C26_Witness ==
    /\ frames = 3
    /\ BarCountConstant
    /\ call.ret.tag = "frame"
    /\ max_cols = 2 /\ Len(columns) = 2
    /\ max_points = 1 /\ Len(flux_history) = 1

\* a frame of a changed bar count came after a flux value was stored: the
\* history still holds that one value, under a cap of 2
C26_ResizedCase ==
    /\ frames = 3
    /\ ~BarCountConstant
    /\ call.ret.tag = "frame"
    /\ max_points = 2 /\ Len(flux_history) = 1
    /\ Len(columns[1]) # Len(columns[Len(columns)])

(***************************************************************************)
(* The loader under fair scheduling, over SpecFair                         *)
(***************************************************************************)
Present == samples # None /\ sample_rate # 0
\* load number n has returned, its path can be decoded, and no load was
\* called after it
LastLoad(n) ==
    /\ fg.pc = "idle"
    /\ Len(threads) = n
    /\ Decodable(threads[n].path)

\* after a load that can be decoded, data is present eventually unless
\* another load is called first
C27_EventuallyPresent ==
    \A n \in 1..MaxLoads :
        LastLoad(n) ~> (Present \/ fg.pc # "idle" \/ Len(threads) > n)

\* once data is present, a step that is not a call of load leaves samples
\* and sample_rate as they are
C27_StableUntilNextLoad ==
    [][ (Present /\ fg.pc = "idle" /\ fg' = fg) =>
            (samples' = samples /\ sample_rate' = sample_rate)
      ]_vars

\* C27: under fair scheduling, after a load(path) whose decode succeeds and
\* with no further load, samples become present with a non-zero sample_rate
\* eventually, and are then unchanged until the next call of load.
C27_PresentThenStable == C27_EventuallyPresent /\ C27_StableUntilNextLoad

(***************************************************************************)
(* Properties of the playlist, over SpecPlaylist                           *)
(***************************************************************************)
ItemPaths == {items[i].path : i \in 1..Len(items)}

\* C28: after every call of add_track, remove_selected, undo_delete,
\* clear_all and from_list the keys of the path index are exactly the paths
\* of the items in the playlist and no two items share a path; an add_track
\* that returned None was for a path that is present.
C28_IndexIsItemPaths ==
    /\ path_index = ItemPaths
    /\ \A i, j \in 1..Len(items) : i # j => items[i].path # items[j].path
    /\ (call.op = "add_track" /\ call.ret = None) => call.arg.path \in ItemPaths

\* a step of SpecPlaylist in which the named method was called and returned
PlaylistReturned(op) == ops' # ops /\ call'.op = op

\* C29: the undo history never holds more than MAX_HISTORY entries; a
\* remove_selected of m items appends one entry per removed item, in the
\* order of the selection, and when that exceeds the cap the oldest entries
\* are dropped and the most recent MAX_HISTORY are kept in order; clear_all,
\* and from_list with replace, leave the history empty.
C29_HistoryCapped ==
    /\ [](Len(undo_history) <= MAX_HISTORY)
    /\ [][ /\ PlaylistReturned("remove_selected") =>
                LET m == call'.ret
                    grown == Len(undo_history) + m
                    dropped == IF grown > MAX_HISTORY THEN grown - MAX_HISTORY
                               ELSE 0
                    kept == Len(undo_history) - dropped
                IN  /\ m = Len(call'.arg)
                    /\ Len(undo_history') = grown - dropped
                    /\ \A i \in 1..kept :
                          undo_history'[i] = undo_history[i + dropped]
                    /\ \A j \in 1..m :
                          undo_history'[kept + j][2] = items[call'.arg[j] + 1]
           /\ PlaylistReturned("clear_all") => undo_history' = <<>>
           /\ (PlaylistReturned("from_list") /\ call'.arg[2]) => undo_history' = <<>>
         ]_vars

\* C29 witness: a removal of two items from a playlist whose history held
\* MAX_HISTORY - 1 entries has returned: the oldest entry is gone and the
\* history holds MAX_HISTORY entries, the newest two those of the removal
C29_Witness ==
    /\ call.op = "remove_selected"
    /\ call.ret = 2
    /\ ops = 1
    /\ Len(undo_history) = MAX_HISTORY
    /\ undo_history[1] = <<0, TrackB>>
    /\ undo_history[MAX_HISTORY - 2] = <<0, TrackA>>
    /\ undo_history[MAX_HISTORY - 1][2] # undo_history[MAX_HISTORY][2]

\* n calls of undo_delete in a row on the playlist st; ret tells whether
\* every one of them returned True
RECURSIVE undo_times(_, _)
undo_times(st, n) ==
    IF n = 0 THEN st
    ELSE LET u == undo_delete(st.items, st.index, st.history)
         IN  undo_times([u EXCEPT !.ret = st.ret /\ u.ret], n - 1)

\* C30: a remove_selected that removed m <= MAX_HISTORY items, followed by m
\* calls of undo_delete and nothing else, leaves the playlist with the items
\* it had before the removal, in their order, each undo_delete returning
\* True; an undo_delete on an empty history returns False and changes
\* nothing, and one on a history that is not empty returns True.
C30_UndoRestores ==
    [][ /\ (PlaylistReturned("remove_selected") /\ call'.ret <= MAX_HISTORY) =>
              LET undone == undo_times([items |-> items', index |-> path_index',
                                        history |-> undo_history', ret |-> TRUE],
                                       call'.ret)
              IN  /\ undone.ret
                  /\ undone.items = items
                  /\ Len(undone.history) = Len(undo_history') - call'.ret
        /\ PlaylistReturned("undo_delete") =>
              IF undo_history = <<>>
              THEN /\ call'.ret = FALSE
                   /\ items' = items
                   /\ path_index' = path_index
                   /\ undo_history' = undo_history
              ELSE /\ call'.ret = TRUE
                   /\ Len(undo_history') = Len(undo_history) - 1
      ]_vars

\* C30 witness: remove_selected took both items of a two-item playlist and
\* the two calls of undo_delete after it have returned: both items are back
\* in their rows
C30_Witness ==
    /\ ops = 3
    /\ call.op = "undo_delete"
    /\ call.ret = TRUE
    /\ items = <<TrackA, TrackB>>
    /\ Len(undo_history) = MAX_HISTORY - 2

\* C30 witness of the other case: undo_delete was called on an empty history
C30_EmptyCase ==
    /\ call.op = "undo_delete"
    /\ call.ret = FALSE
    /\ undo_history = <<>>
    /\ items # <<>>

====
